---- MODULE Spec2Model ----
(***************************************************************************)
(* Model of src/app.py: the testimonial-wall application.                  *)
(*                                                                         *)
(* The database holds three tables (User, Testimonial, PromoCode).  Every  *)
(* HTTP request is served by a worker with its own SQLAlchemy session: the *)
(* rows a handler loads are private copies (the session's identity map),   *)
(* the handler's checks read those copies, and db.session.commit() flushes *)
(* the attributes that differ from the loaded copy as UPDATE ... WHERE     *)
(* id = ?, INSERT or DELETE statements in one transaction.  A handler is   *)
(* therefore a sequence of steps (load, check, commit) and the steps of    *)
(* concurrent requests interleave.                                         *)
(*                                                                         *)
(* Primary keys come from the table's sequence and are never handed out    *)
(* twice; users and promo codes are never deleted by any handler.          *)
(***************************************************************************)
EXTENDS Integers, Sequences, FiniteSets, TLC

VARIABLES users, testimonials, codes, req

vars == <<users, testimonials, codes, req>>

\* ------------------------------------------------------------------ bounds
MaxUsers == 2
MaxTestimonials == 2
MaxCodes == 2

\* The requests in progress at one time: the races of the handlers are between the
\* load of one request and the commit of another.
Workers == {1, 2}

\* ------------------------------------------------------------ input domains
Emails == {"alice@example.com", "bob@example.com"}
Passwords == {"pw"}
PasswordTries == Passwords \cup {"bad"}
CustomerIds == {"cus_1"}
WallTitles == {"Wall"}
Methods == {"GET", "POST"}

ADMIN_KEY == "super-secret-admin-key"
AdminKeys == {ADMIN_KEY, "guess"}

\* Strings that handlers transform are sequences of characters.
\* secrets.token_hex(8).upper() yields digits and the letters A-F.
GenCodes == {<<"A", "1">>, <<"B", "2">>}
CodeInputs == {<<>>, <<"a", "1">>, <<" ", "A", "1">>, <<"B", "2">>}

\* ---------------------------------------------------------------- helpers
None == "None"

UpperChar(c) ==
  CASE c = "a" -> "A"
    [] c = "b" -> "B"
    [] OTHER -> c

Upper(s) == [i \in DOMAIN s |-> UpperChar(s[i])]

generate_password_hash(password) == <<"pbkdf2:sha256", password>>

check_password(hash, password) == hash = generate_password_hash(password)

\* -------------------------------------------------------------- responses
\* What a request is answered with: the message it flashes, or the HTTP outcome.
DuplicateEmail == "Email address already exists."

PaymentProviderUnavailable == "Could not create billing account"

InvalidCredentials == "Please check your login details and try again."

EmptyCode == "Please enter a code."

InvalidCode == "Invalid promotional code."

UsedCode == "This code has already been used."

AlreadyEntitled == "You already have an active or lifetime subscription."

Redeemed == "Congratulations! You now have free lifetime access."

\* ------------------------------------------------------------------ tables
\* users[i] is the User row with id i.
UserIds == 1..Len(users)

UserByEmail(email) == {i \in UserIds : users[i].email = email}

\* testimonials[i] is the Testimonial row with id i, or Deleted once removed.
Deleted == [deleted |-> TRUE]

TestimonialIds == {i \in 1..Len(testimonials) : testimonials[i] # Deleted}

\* codes[i] is the PromoCode row with id i.
CodeIds == 1..Len(codes)

CodeByString(s) == {i \in CodeIds : codes[i].code = s}

\* ----------------------------------------------------------------- workers
NoRow == [kind |-> "none"]

Idle ==
  [op |-> "idle", pc |-> "idle", actor |-> 0, arg |-> NoRow, cu |-> NoRow,
   row |-> NoRow, result |-> None, body |-> <<>>]

\* A finished request's response is handed to the client (Return) before any
\* other step is taken.  Return touches no table.
Quiet == \A w \in Workers : req[w].pc # "done"

Free(w) == Quiet /\ req[w].pc = "idle"

Running(w, op, pc) == Quiet /\ req[w].op = op /\ req[w].pc = pc

Start(op, actor, arg) == [Idle EXCEPT !.op = op, !.actor = actor, !.arg = arg]

Done(r, result) == [r EXCEPT !.pc = "done", !.result = result]

DoneWith(r, result, body) == [r EXCEPT !.pc = "done", !.result = result, !.body = body]

At(r, pc) == [r EXCEPT !.pc = pc]

\* The acting tenant of a request: a user id of the session, or 0 (anonymous).
Actors == {0} \cup UserIds

\* flask-login's load_user: the session's copy of the current user's row.  The copy
\* is kept as the id and the one attribute the handler goes on to read or assign.
load_user(user_id, attr) == [id |-> user_id, v |-> users[user_id][attr]]

\* @login_required: an anonymous request is redirected to the login view.
LoginRequired == "LoginRequired"

Init ==
  /\ users = <<>>
  /\ testimonials = <<>>
  /\ codes = <<>>
  /\ req = [w \in Workers |-> Idle]

Return(w) ==
  /\ req[w].pc = "done"
  /\ req' = [req EXCEPT ![w] = Idle]
  /\ UNCHANGED <<users, testimonials, codes>>

\* ------------------------------------------------------------------- admin
\* AdminAuthorized with every key accepted.
AdminAuthorizedAny(admin_key) == TRUE

\* `admin_key != app.config['ADMIN_KEY']`
AdminAuthorized(admin_key) == admin_key = ADMIN_KEY

NewPromoCode(code) == [code |-> code, is_active |-> TRUE, redeemed_by_user_id |-> 0]

Admin(w) ==
  /\ Free(w)
  /\ \E admin_key \in AdminKeys, method \in Methods :
       LET r == Start("admin", 0, [admin_key |-> admin_key, method |-> method]) IN
       IF ~AdminAuthorized(admin_key)
       THEN /\ req' = [req EXCEPT ![w] = Done(r, "Unauthorized")]
            /\ UNCHANGED codes
       ELSE IF method = "POST"
       THEN \E new_code_str \in GenCodes :
              IF CodeByString(new_code_str) # {}
              THEN \* unique=True on PromoCode.code: the INSERT raises IntegrityError
                   /\ req' = [req EXCEPT ![w] = Done(r, "IntegrityError")]
                   /\ UNCHANGED codes
              ELSE /\ Len(codes) < MaxCodes
                   /\ codes' = Append(codes, NewPromoCode(new_code_str))
                   /\ req' = [req EXCEPT ![w] = DoneWith(r, "OK", codes')]
       ELSE /\ req' = [req EXCEPT ![w] = DoneWith(r, "OK", codes)]
            /\ UNCHANGED codes
  /\ UNCHANGED <<users, testimonials>>

\* ------------------------------------------------------------------ signup
\* A request that is answered before the form is read carries no form.
NoForm == [method |-> "GET"]

SignupCheck(w) ==
  /\ Free(w)
  /\ \E actor \in Actors :
       IF actor # 0
       THEN req' = [req EXCEPT ![w] = Done(Start("signup", actor, NoForm), "RedirectDashboard")]
       ELSE \/ req' = [req EXCEPT ![w] = Done(Start("signup", 0, NoForm), "Form")]
            \/ \E email \in Emails, password \in Passwords :
                 LET r == Start("signup", 0, [method |-> "POST", email |-> email,
                                              password |-> password]) IN
                 req' = [req EXCEPT ![w] =
                           IF UserByEmail(email) # {}
                           THEN Done(r, DuplicateEmail)
                           ELSE At(r, "createCustomer")]
  /\ UNCHANGED <<users, testimonials, codes>>

\* SignupCreateCustomer with the exception swallowed: the signup goes on without a
\* customer.
SignupCreateCustomerSwallowed(w) ==
  /\ Running(w, "signup", "createCustomer")
  /\ \/ \E customer \in CustomerIds :
          req' = [req EXCEPT ![w] = [At(req[w], "commit") EXCEPT !.row = [id |-> customer]]]
     \/ req' = [req EXCEPT ![w] = [At(req[w], "commit") EXCEPT !.row = [id |-> None]]]
  /\ UNCHANGED <<users, testimonials, codes>>

\* stripe.Customer.create: returns a customer or raises.
SignupCreateCustomer(w) ==
  /\ Running(w, "signup", "createCustomer")
  /\ \/ \E customer \in CustomerIds :
          req' = [req EXCEPT ![w] = [At(req[w], "commit") EXCEPT !.row = [id |-> customer]]]
     \/ req' = [req EXCEPT ![w] = Done(req[w], PaymentProviderUnavailable)]
  /\ UNCHANGED <<users, testimonials, codes>>

NewUser(email, password, stripe_customer_id) ==
  [email |-> email, password_hash |-> generate_password_hash(password),
   subscription_status |-> "inactive", stripe_customer_id |-> stripe_customer_id,
   wall_title |-> None]

\* EmailUnique without the unique index on the column.
EmailUniqueNoIndex(email) == TRUE

\* unique=True on User.email: the INSERT of a second row with the email fails.
EmailUnique(email) == UserByEmail(email) = {}

SignupCommit(w) ==
  /\ Running(w, "signup", "commit")
  /\ IF ~EmailUnique(req[w].arg.email)
     THEN /\ req' = [req EXCEPT ![w] = Done(req[w], "IntegrityError")]
          /\ UNCHANGED users
     ELSE /\ Len(users) < MaxUsers
          /\ users' = Append(users, NewUser(req[w].arg.email, req[w].arg.password,
                                            req[w].row.id))
          /\ req' = [req EXCEPT ![w] = Done(req[w], "OK")]
  /\ UNCHANGED <<testimonials, codes>>

\* ------------------------------------------------------------------- login
Login(w) ==
  /\ Free(w)
  /\ \E actor \in Actors :
       IF actor # 0
       THEN req' = [req EXCEPT ![w] = Done(Start("login", actor, NoForm), "RedirectDashboard")]
       ELSE \/ req' = [req EXCEPT ![w] = Done(Start("login", 0, NoForm), "Form")]
            \/ \E email \in Emails, password \in PasswordTries :
                 LET r == Start("login", 0, [method |-> "POST", email |-> email,
                                             password |-> password])
                     user == UserByEmail(email) IN
                 req' = [req EXCEPT ![w] =
                           IF user = {} \/ \A i \in user :
                                ~check_password(users[i].password_hash, password)
                           THEN Done(r, InvalidCredentials)
                           ELSE Done(r, "OK")]
  /\ UNCHANGED <<users, testimonials, codes>>

\* ------------------------------------------------------------- redeem_code
\* The form field may be absent (request.form.get gives None) or any string.
CodeFields == {[present |-> FALSE, val |-> <<>>]} \cup
              {[present |-> TRUE, val |-> s] : s \in CodeInputs}

\* `not code_str`
CodeFieldEmpty(f) == ~f.present \/ f.val = <<>>

RedeemBegin(w) ==
  /\ Free(w)
  /\ \E actor \in Actors :
       IF actor = 0
       THEN req' = [req EXCEPT ![w] = Done(Start("redeem", 0, NoRow), LoginRequired)]
       ELSE \E f \in CodeFields :
              LET r == Start("redeem", actor, f) IN
              req' = [req EXCEPT ![w] =
                        IF CodeFieldEmpty(f)
                        THEN Done(r, EmptyCode)
                        ELSE [At(r, "lookup") EXCEPT
                                !.cu = load_user(actor, "subscription_status")]]
  /\ UNCHANGED <<users, testimonials, codes>>

\* Entitled with the lifetime tier forgotten.
EntitledMonthlyOnly(status) == status = "active"

\* `current_user.subscription_status in ['active', 'lifetime']`
Entitled(status) == status \in {"active", "lifetime"}

RedeemLookup(w) ==
  /\ Running(w, "redeem", "lookup")
  /\ LET r == req[w]
         promo_code == CodeByString(Upper(r.arg.val)) IN
       req' = [req EXCEPT ![w] =
                 IF promo_code = {} THEN Done(r, InvalidCode)
                 ELSE LET id == CHOOSE i \in promo_code : TRUE
                          loaded == [r EXCEPT !.row = [id |-> id]] IN
                      IF ~codes[id].is_active
                      THEN Done(loaded, UsedCode)
                      ELSE IF Entitled(r.cu.v)
                      THEN Done(loaded, AlreadyEntitled)
                      ELSE At(loaded, "commit")]
  /\ UNCHANGED <<users, testimonials, codes>>

\* RedeemedCode with the redeeming tenant not recorded.
RedeemedCodeFlagOnly(row, user_id) == [row EXCEPT !.is_active = FALSE]

\* The flush of redeem_code's three assignments: two UPDATE ... WHERE id = ?.
RedeemedCode(row, user_id) ==
  [row EXCEPT !.is_active = FALSE, !.redeemed_by_user_id = user_id]

RedeemCommit(w) ==
  /\ Running(w, "redeem", "commit")
  /\ LET r == req[w] IN
       /\ codes' = [codes EXCEPT ![r.row.id] = RedeemedCode(@, r.cu.id)]
       /\ users' = [users EXCEPT ![r.cu.id].subscription_status = "lifetime"]
       /\ req' = [req EXCEPT ![w] =
                    Done(r, Redeemed)]
  /\ UNCHANGED testimonials

\* -------------------------------------------------------- update_wall_settings
TitleFields == WallTitles \cup {None}

UpdateWallBegin(w) ==
  /\ Free(w)
  /\ \E actor \in Actors :
       IF actor = 0
       THEN req' = [req EXCEPT ![w] =
                      Done(Start("update_wall_settings", 0, NoRow), LoginRequired)]
       ELSE \E title \in TitleFields :
              LET r == Start("update_wall_settings", actor, [wall_title |-> title]) IN
              req' = [req EXCEPT ![w] =
                        [At(r, "commit") EXCEPT !.cu = load_user(actor, "wall_title")]]
  /\ UNCHANGED <<users, testimonials, codes>>

\* The flush emits an UPDATE only for an attribute that differs from the loaded copy.
UpdateWallCommit(w) ==
  /\ Running(w, "update_wall_settings", "commit")
  /\ LET r == req[w] IN
       /\ users' = IF r.cu.v # r.arg.wall_title
                   THEN [users EXCEPT ![r.cu.id].wall_title = r.arg.wall_title]
                   ELSE users
       /\ req' = [req EXCEPT ![w] = Done(r, "Your wall settings have been updated.")]
  /\ UNCHANGED <<testimonials, codes>>

\* ----------------------------------------------------------------- success
SuccessBegin(w) ==
  /\ Free(w)
  /\ \E actor \in Actors :
       LET r == Start("success", actor, NoRow) IN
       req' = [req EXCEPT ![w] =
                 IF actor = 0 THEN Done(r, LoginRequired)
                 ELSE [At(r, "commit") EXCEPT !.cu = load_user(actor, "subscription_status")]]
  /\ UNCHANGED <<users, testimonials, codes>>

\* SuccessStatus with the tier reset.
SuccessStatusReset == "inactive"

\* `current_user.subscription_status = 'active'`
SuccessStatus == "active"

SuccessCommit(w) ==
  /\ Running(w, "success", "commit")
  /\ LET r == req[w] IN
       /\ users' = IF r.cu.v # SuccessStatus
                   THEN [users EXCEPT ![r.cu.id].subscription_status = SuccessStatus]
                   ELSE users
       /\ req' = [req EXCEPT ![w] = Done(r, "OK")]
  /\ UNCHANGED <<testimonials, codes>>

\* ---------------------------------- create_checkout_session, manage_subscription
\* stripe.checkout.Session.create / stripe.billing_portal.Session.create with the
\* loaded user's stripe_customer_id: a redirect to the session URL, or the error.
CreateCheckoutSession(w) ==
  /\ Free(w)
  /\ \E actor \in Actors :
       LET r == Start("create_checkout_session", actor, NoRow) IN
       IF actor = 0
       THEN req' = [req EXCEPT ![w] = Done(r, LoginRequired)]
       ELSE LET l == [r EXCEPT !.cu = load_user(actor, "stripe_customer_id")] IN
            \/ req' = [req EXCEPT ![w] = DoneWith(l, "RedirectSession", <<l.cu.v>>)]
            \/ req' = [req EXCEPT ![w] = Done(l, "StripeError")]
  /\ UNCHANGED <<users, testimonials, codes>>

ManageSubscription(w) ==
  /\ Free(w)
  /\ \E actor \in Actors :
       LET r == Start("manage_subscription", actor, NoRow) IN
       IF actor = 0
       THEN req' = [req EXCEPT ![w] = Done(r, LoginRequired)]
       ELSE LET l == [r EXCEPT !.cu = load_user(actor, "stripe_customer_id")] IN
            \/ req' = [req EXCEPT ![w] = DoneWith(l, "RedirectSession", <<l.cu.v>>)]
            \/ req' = [req EXCEPT ![w] = Done(l, "Could not open billing portal")]
  /\ UNCHANGED <<users, testimonials, codes>>

\* ----------------------------------------------------- collect_testimonial
\* int(): the number a decimal string denotes; anything else raises ValueError.
IsInt(s) == s \in {"3", "5"}

ParseInt(s) == CASE s = "3" -> 3 [] s = "5" -> 5

\* The submitted forms: a field may be absent.
Absent == [present |-> FALSE, val |-> ""]

Field(s) == [present |-> TRUE, val |-> s]

\* Submissions with the author name and the content filled in.
FilledForms ==
  {[author_name |-> Field("Bob"), content |-> Field("Great!"), rating |-> Field("5")],
   [author_name |-> Field("Bob"), content |-> Field("Great!"), rating |-> Absent],
   [author_name |-> Field("Bob"), content |-> Field("Great!"), rating |-> Field("x")],
   [author_name |-> Absent, content |-> Field("Great!"), rating |-> Absent],
   [author_name |-> Field("Bob"), content |-> Absent, rating |-> Absent]}

\* Submissions with an empty author name or an empty content.
BlankForms ==
  {[author_name |-> Field(""), content |-> Field("Great!"), rating |-> Absent],
   [author_name |-> Field("Bob"), content |-> Field(""), rating |-> Field("3")]}

CollectForms == FilledForms \cup BlankForms

UserIdInputs == 1..MaxUsers

\* NewTestimonial with the submission published at once.
NewTestimonialApproved(name, text, rating, user_id) ==
  [author_name |-> name, content |-> text, status |-> "approved", rating |-> rating,
   user_id |-> user_id]

\* Testimonial(...): status is the column default.
NewTestimonial(name, text, rating, user_id) ==
  [author_name |-> name, content |-> text, status |-> "pending", rating |-> rating,
   user_id |-> user_id]

Collect(w, forms) ==
  /\ Free(w)
  /\ \E user_id \in UserIdInputs :
       LET r == Start("collect", 0, [user_id |-> user_id, method |-> "GET"]) IN
       IF user_id \notin UserIds
       THEN /\ req' = [req EXCEPT ![w] = Done(r, "NotFound")]
            /\ UNCHANGED testimonials
       ELSE \/ /\ req' = [req EXCEPT ![w] = Done(r, "Form")]
               /\ UNCHANGED testimonials
            \/ \E form \in forms :
                 LET p == Start("collect", 0,
                                [user_id |-> user_id, method |-> "POST", form |-> form]) IN
                 IF ~form.author_name.present \/ ~form.content.present
                 THEN \* request.form[...] of a missing key
                      /\ req' = [req EXCEPT ![w] = Done(p, "BadRequest")]
                      /\ UNCHANGED testimonials
                 ELSE IF form.rating.present /\ ~IsInt(form.rating.val)
                 THEN /\ req' = [req EXCEPT ![w] = Done(p, "ValueError")]
                      /\ UNCHANGED testimonials
                 ELSE /\ Len(testimonials) < MaxTestimonials
                      /\ testimonials' =
                           Append(testimonials,
                                  NewTestimonial(form.author_name.val, form.content.val,
                                                 IF form.rating.present
                                                 THEN ParseInt(form.rating.val) ELSE 5,
                                                 user_id))
                      /\ req' = [req EXCEPT ![w] = Done(p, "OK")]
  /\ UNCHANGED <<users, codes>>

\* The handler, for every submission.
CollectTestimonial(w) == Collect(w, CollectForms)

\* The handler, for the submissions that fill in the author name and the content:
\* the moderation of a testimonial does not read its text.
CollectFilled(w) == Collect(w, FilledForms)

\* ------------------------------------------------------ dashboard, show_wall
\* OrderByIdDesc with the oldest row first.
RECURSIVE OrderByIdAsc(_)
OrderByIdAsc(S) ==
  IF S = {} THEN <<>>
  ELSE LET m == CHOOSE i \in S : \A j \in S : i <= j IN
       <<m>> \o OrderByIdAsc(S \ {m})

\* order_by(Testimonial.id.desc())
RECURSIVE OrderByIdDesc(_)
OrderByIdDesc(S) ==
  IF S = {} THEN <<>>
  ELSE LET m == CHOOSE i \in S : \A j \in S : j <= i IN
       <<m>> \o OrderByIdDesc(S \ {m})

\* The rows a query returns: each with its id.
Rows(ids) == [k \in DOMAIN ids |-> [id |-> ids[k], v |-> testimonials[ids[k]]]]

DashboardQuery(user_id) ==
  Rows(OrderByIdDesc({i \in TestimonialIds : testimonials[i].user_id = user_id}))

\* WallQuery without the status filter.
WallQueryAnyStatus(user_id) ==
  Rows(OrderByIdDesc({i \in TestimonialIds : testimonials[i].user_id = user_id}))

WallQuery(user_id) ==
  Rows(OrderByIdDesc({i \in TestimonialIds : /\ testimonials[i].user_id = user_id
                                            /\ testimonials[i].status = "approved"}))

Dashboard(w) ==
  /\ Free(w)
  /\ \E actor \in Actors :
       LET r == Start("dashboard", actor, NoRow) IN
       req' = [req EXCEPT ![w] =
                 IF actor = 0 THEN Done(r, LoginRequired)
                 ELSE DoneWith(r, "OK", DashboardQuery(actor))]
  /\ UNCHANGED <<users, testimonials, codes>>

ShowWall(w) ==
  /\ Free(w)
  /\ \E user_id \in UserIdInputs :
       LET r == Start("wall", 0, [user_id |-> user_id]) IN
       req' = [req EXCEPT ![w] =
                 IF user_id \notin UserIds THEN Done(r, "NotFound")
                 ELSE DoneWith([r EXCEPT !.cu = load_user(user_id, "wall_title")],
                               "OK", WallQuery(user_id))]
  /\ UNCHANGED <<users, testimonials, codes>>

\* -------------------------------------------------- approve, hide, delete
TestimonialIdInputs == 1..MaxTestimonials

\* IsOwner with the ownership check left out.
IsOwnerUnchecked(testimonial, actor) == TRUE

\* `testimonial.owner != current_user`
IsOwner(testimonial, actor) == testimonial.user_id = actor

\* get_or_404 and the ownership check of the three moderation handlers.
ModerationBegin(w, op) ==
  /\ Free(w)
  /\ \E actor \in Actors :
       IF actor = 0
       THEN req' = [req EXCEPT ![w] = Done(Start(op, 0, NoRow), LoginRequired)]
       ELSE \E testimonial_id \in TestimonialIdInputs :
              LET r == Start(op, actor, [testimonial_id |-> testimonial_id]) IN
              req' = [req EXCEPT ![w] =
                        IF testimonial_id \notin TestimonialIds THEN Done(r, "NotFound")
                        ELSE IF ~IsOwner(testimonials[testimonial_id], actor)
                        THEN Done(r, "Unauthorized")
                        ELSE [At(r, "commit") EXCEPT
                                !.row = [id |-> testimonial_id,
                                         v |-> testimonials[testimonial_id].status]]]
  /\ UNCHANGED <<users, testimonials, codes>>

\* SetStatusCommit that rejects a testimonial already in the status.
SetStatusCommitStrict(w, op, status) ==
  /\ Running(w, op, "commit")
  /\ LET r == req[w] IN
       IF r.row.v = status \/ r.row.id \notin TestimonialIds
       THEN /\ req' = [req EXCEPT ![w] = Done(r, "Conflict")]
            /\ UNCHANGED testimonials
       ELSE /\ testimonials' = [testimonials EXCEPT ![r.row.id].status = status]
            /\ req' = [req EXCEPT ![w] = Done(r, "OK")]
  /\ UNCHANGED <<users, codes>>

\* The flush of `testimonial.status = status`: no UPDATE when the loaded copy already
\* has the status; an UPDATE ... WHERE id = ? that matches no row raises StaleDataError.
SetStatusCommit(w, op, status) ==
  /\ Running(w, op, "commit")
  /\ LET r == req[w] IN
       IF r.row.v = status
       THEN /\ req' = [req EXCEPT ![w] = Done(r, "OK")]
            /\ UNCHANGED testimonials
       ELSE IF r.row.id \notin TestimonialIds
       THEN /\ req' = [req EXCEPT ![w] = Done(r, "StaleDataError")]
            /\ UNCHANGED testimonials
       ELSE /\ testimonials' = [testimonials EXCEPT ![r.row.id].status = status]
            /\ req' = [req EXCEPT ![w] = Done(r, "OK")]
  /\ UNCHANGED <<users, codes>>

ApproveBegin(w) == ModerationBegin(w, "approve")

ApproveCommit(w) == SetStatusCommit(w, "approve", "approved")

HideBegin(w) == ModerationBegin(w, "hide")

HideCommit(w) == SetStatusCommit(w, "hide", "hidden")

DeleteBegin(w) == ModerationBegin(w, "delete")

\* The flush of db.session.delete: DELETE ... WHERE id = ?; a row already gone is
\* reported as a warning, not an error.
DeleteCommit(w) ==
  /\ Running(w, "delete", "commit")
  /\ testimonials' = IF req[w].row.id \in TestimonialIds
                     THEN [testimonials EXCEPT ![req[w].row.id] = Deleted]
                     ELSE testimonials
  /\ req' = [req EXCEPT ![w] = Done(req[w], "Testimonial has been deleted.")]
  /\ UNCHANGED <<users, codes>>

\* ---------------------------------------------------------- specifications
AccountsStep(w) ==
  \/ Admin(w)
  \/ SignupCheck(w)
  \/ SignupCreateCustomer(w)
  \/ SignupCommit(w)
  \/ Login(w)
  \/ RedeemBegin(w)
  \/ RedeemLookup(w)
  \/ RedeemCommit(w)
  \/ SuccessBegin(w)
  \/ SuccessCommit(w)
  \/ CreateCheckoutSession(w)
  \/ ManageSubscription(w)
  \/ Return(w)

\* The handlers of the tenant registry, the entitlement engine and the promo code
\* ledger: they read and write the User and PromoCode tables only.
NextAccounts == \E w \in Workers : AccountsStep(w)

SpecAccounts == Init /\ [][NextAccounts]_vars

WallStep(w) ==
  \/ SignupCheck(w)
  \/ SignupCreateCustomer(w)
  \/ SignupCommit(w)
  \/ CollectFilled(w)
  \/ Dashboard(w)
  \/ ShowWall(w)
  \/ ApproveBegin(w)
  \/ ApproveCommit(w)
  \/ HideBegin(w)
  \/ HideCommit(w)
  \/ DeleteBegin(w)
  \/ DeleteCommit(w)
  \/ Return(w)

\* The handlers of the moderation engine and the wall: they write the Testimonial
\* table only.
NextWall == \E w \in Workers : WallStep(w)

SpecWall == Init /\ [][NextWall]_vars

SettingsStep(w) ==
  \/ SignupCheck(w)
  \/ SignupCreateCustomer(w)
  \/ SignupCommit(w)
  \/ UpdateWallBegin(w)
  \/ UpdateWallCommit(w)
  \/ ShowWall(w)
  \/ Return(w)

\* The wall settings: update_wall_settings writes the tenants' wall titles only.
NextSettings == \E w \in Workers : SettingsStep(w)

SpecSettings == Init /\ [][NextSettings]_vars

SubmitStep(w) ==
  \/ SignupCheck(w)
  \/ SignupCreateCustomer(w)
  \/ SignupCommit(w)
  \/ CollectTestimonial(w)
  \/ Dashboard(w)
  \/ DeleteBegin(w)
  \/ DeleteCommit(w)
  \/ Return(w)

\* The public submission, with every form a client can send.
NextSubmit == \E w \in Workers : SubmitStep(w)

SpecSubmit == Init /\ [][NextSubmit]_vars

Next == NextAccounts \/ NextWall \/ NextSettings \/ NextSubmit

Spec == Init /\ [][Next]_vars

\* ------------------------------------------------------------------ claims
\* The step in which worker w's request is answered.
Finishes(w) == req[w].pc # "done" /\ req'[w].pc = "done"

IsDone(w, op) == req[w].op = op /\ req[w].pc = "done"

InvalidOrUsedCode == {InvalidCode, UsedCode}

\* The tiers the specification calls entitled.
EntitledTiers == {"active", "lifetime"}

\* The promo code rows a redeem request's submitted string selects.
RequestedCode(w) == CodeByString(Upper(req[w].arg.val))

\* C1: redemption is linearizable.  A redemption attempt that is answered when its
\* code is absent or already consumed by another tenant fails with InvalidOrUsedCode
\* and changes nothing, whatever the interleaving of the attempts' steps; so of N
\* attempts by distinct locked tenants on one active code exactly one succeeds and
\* exactly one tenant ends in lifetime.
C1_RedeemLinearizable ==
  [][\A w \in Workers :
       (/\ req[w].op = "redeem"
        /\ req[w].pc \in {"lookup", "commit"}
        /\ Finishes(w)
        /\ \A c \in RequestedCode(w) :
             ~codes[c].is_active /\ codes[c].redeemed_by_user_id # req[w].actor)
       => /\ req'[w].result \in InvalidOrUsedCode
          /\ users' = users
          /\ codes' = codes]_vars

\* C2: no two tenants share an email.  A signup whose email exists when it is
\* answered creates no tenant and does not succeed (DuplicateEmail when the existence
\* check sees the email); a signup that commits an email nobody holds succeeds. So of
\* interleaved signups with one new email exactly one succeeds.
C2_SignupEmailUnique ==
  [][/\ \A i, j \in 1..Len(users') : i # j => users'[i].email # users'[j].email
     /\ \A w \in Workers :
          (req'[w].op = "signup" /\ Finishes(w) /\ req'[w].arg.method = "POST")
          => IF UserByEmail(req'[w].arg.email) # {}
             THEN /\ req'[w].result # "OK"
                  /\ users' = users
                  /\ req[w].pc = "idle" => req'[w].result = DuplicateEmail
             ELSE req[w].pc = "commit"
                  => /\ req'[w].result = "OK"
                     /\ Len(users') = Len(users) + 1
                     /\ users'[Len(users')].email = req'[w].arg.email]_vars

\* C2 witness: a signup lost the race for its email: it passed the existence check
\* and its insert was refused, the email being held by exactly one tenant.
C2_Witness ==
  \E w \in Workers :
    /\ IsDone(w, "signup")
    /\ req[w].result = "IntegrityError"
    /\ Cardinality(UserByEmail(req[w].arg.email)) = 1

ModerationOps == {"approve", "hide", "delete"}

\* C3: cross-tenant isolation.  approve, hide and delete by a tenant that does not own
\* the testimonial are answered Unauthorized (403) and change nothing; and every step
\* that changes a testimonial's status or removes it is the commit of a moderation
\* request of its owner.
C3_CrossTenantIsolation ==
  [][/\ \A w \in Workers :
          (/\ req[w].pc = "idle"
           /\ req'[w].op \in ModerationOps
           /\ req'[w].actor # 0
           /\ req'[w].arg.testimonial_id \in TestimonialIds
           /\ testimonials[req'[w].arg.testimonial_id].user_id # req'[w].actor)
          => /\ req'[w].pc = "done"
             /\ req'[w].result = "Unauthorized"
             /\ testimonials' = testimonials
     /\ \A t \in TestimonialIds :
          testimonials'[t] # testimonials[t]
          => \E w \in Workers :
               /\ req[w].op \in ModerationOps
               /\ req[w].pc = "commit"
               /\ Finishes(w)
               /\ req[w].row.id = t
               /\ req[w].actor = testimonials[t].user_id]_vars

\* C3 witness: a tenant was refused on another tenant's testimonial.
C3_Witness ==
  \E w \in Workers :
    /\ req[w].op \in ModerationOps
    /\ req[w].pc = "done"
    /\ req[w].result = "Unauthorized"
    /\ req[w].arg.testimonial_id \in TestimonialIds
    /\ testimonials[req[w].arg.testimonial_id].user_id \notin {0, req[w].actor}

\* C4: the wall of every tenant X, and every wall response, holds only testimonials
\* that are approved and owned by X.
C4_WallOnlyApprovedOwn ==
  /\ \A x \in UserIds : \A k \in DOMAIN WallQuery(x) :
       /\ WallQuery(x)[k].v.status = "approved"
       /\ WallQuery(x)[k].v.user_id = x
  /\ \A w \in Workers :
       (IsDone(w, "wall") /\ req[w].result = "OK")
       => \A k \in DOMAIN req[w].body :
            /\ req[w].body[k].v.status = "approved"
            /\ req[w].body[k].v.user_id = req[w].arg.user_id

\* C4 witness: a wall was served with an entry while a testimonial of the same tenant
\* that is not approved, or a testimonial of another tenant, exists.
C4_Witness ==
  \E w \in Workers :
    /\ IsDone(w, "wall")
    /\ req[w].result = "OK"
    /\ Len(req[w].body) = 1
    /\ \E t \in TestimonialIds :
         \/ testimonials[t].user_id # req[w].arg.user_id
         \/ testimonials[t].status \in {"pending", "hidden"}

\* C5: a redeem request of a tenant that was active or lifetime when the request
\* loaded it, for a code that exists and is active, is answered AlreadyEntitled and
\* changes neither the code nor any tenant.
C5_EntitledRedeemRejected ==
  [][\A w \in Workers :
       (/\ req[w].op = "redeem"
        /\ req[w].pc # "done"
        /\ req'[w] # req[w]
        /\ users[req[w].actor].subscription_status \in EntitledTiers
        /\ req[w].cu.v \in EntitledTiers
        /\ \E c \in RequestedCode(w) : codes[c].is_active)
       => /\ req'[w].pc = "done"
          /\ req'[w].result = AlreadyEntitled
          /\ codes' = codes
          /\ users' = users]_vars

\* C5 witness: a lifetime tenant was refused an active code.
C5_Witness ==
  \E w \in Workers :
    /\ IsDone(w, "redeem")
    /\ req[w].result = AlreadyEntitled
    /\ users[req[w].actor].subscription_status = "lifetime"
    /\ codes[req[w].row.id].is_active
    /\ codes[req[w].row.id].redeemed_by_user_id = 0

StatusOf(op) == IF op = "approve" THEN "approved" ELSE "hidden"

\* C6: setStatus is idempotent.  When the owner's approve (hide) commits on a
\* testimonial that is already approved (hidden), the request succeeds and the whole
\* store is unchanged.
C6_SetStatusIdempotent ==
  [][\A w \in Workers :
       (/\ req[w].op \in {"approve", "hide"}
        /\ req[w].pc = "commit"
        /\ req'[w] # req[w]
        /\ req[w].row.id \in TestimonialIds
        /\ testimonials[req[w].row.id].status = StatusOf(req[w].op))
       => /\ req'[w].pc = "done"
          /\ req'[w].result = "OK"
          /\ <<users, testimonials, codes>>' = <<users, testimonials, codes>>]_vars

\* C6 witness: an approve of a testimonial loaded as approved was answered.
C6_Witness ==
  \E w \in Workers :
    /\ IsDone(w, "approve")
    /\ req[w].row # NoRow
    /\ req[w].row.v = "approved"
    /\ testimonials[req[w].row.id].status = "approved"

\* C7: a tenant that is active or lifetime is active or lifetime after every step.
C7_NeverBackToLocked ==
  [][\A u \in UserIds :
       users[u].subscription_status \in EntitledTiers
       => users'[u].subscription_status \in EntitledTiers]_vars

\* C7 witness: a tenant that redeemed a code went through confirmCheckout afterwards.
C7_Witness ==
  \E w \in Workers :
    /\ IsDone(w, "success")
    /\ req[w].result = "OK"
    /\ req[w].cu.v = "lifetime"
    /\ users[req[w].actor].subscription_status \in EntitledTiers

\* C8: every change of a tenant's tier is locked to active by the commit of that
\* tenant's confirmCheckout or locked to lifetime by the commit of that tenant's
\* redeem; the tier of a lifetime tenant never changes.
C8_OnlyDefinedTransitions ==
  [][\A u \in UserIds :
       users'[u].subscription_status # users[u].subscription_status
       => /\ users[u].subscription_status = "inactive"
          /\ \E w \in Workers :
               /\ req[w].actor = u
               /\ req[w].pc = "commit"
               /\ Finishes(w)
               /\ \/ /\ req[w].op = "success"
                     /\ users'[u].subscription_status = "active"
                  \/ /\ req[w].op = "redeem"
                     /\ users'[u].subscription_status = "lifetime"]_vars

\* C9: tenant creation is all-or-nothing.  A signup whose createCustomer call fails
\* is answered PaymentProviderUnavailable and creates no tenant; every tenant row
\* carries the customer reference its signup obtained before the commit.
C9_SignupAllOrNothing ==
  [][/\ \A w \in Workers :
          (req[w].op = "signup" /\ req[w].pc = "createCustomer" /\ req'[w] # req[w])
          => \/ /\ req'[w].pc = "commit"
                /\ req'[w].row.id \in CustomerIds
                /\ users' = users
             \/ /\ req'[w].pc = "done"
                /\ req'[w].result = PaymentProviderUnavailable
                /\ users' = users
     /\ \A u \in 1..Len(users') :
          /\ users'[u].stripe_customer_id \in CustomerIds
          /\ u \notin UserIds
             => \E w \in Workers :
                  /\ req[w].op = "signup"
                  /\ req[w].pc = "commit"
                  /\ users'[u].stripe_customer_id = req[w].row.id]_vars

\* C9 witness: a signup failed at the payment provider while another tenant exists.
C9_Witness ==
  \E w \in Workers :
    /\ IsDone(w, "signup")
    /\ req[w].result = PaymentProviderUnavailable
    /\ UserByEmail(req[w].arg.email) = {}
    /\ Len(users) = 1

\* C10: a promo code is inactive exactly when its redeeming tenant is set.
C10_InactiveIffRedeemed ==
  \A c \in CodeIds : ~codes[c].is_active <=> codes[c].redeemed_by_user_id # 0

\* C10 witness: one code is redeemed and another is fresh.
C10_Witness ==
  \E c, d \in CodeIds :
    /\ ~codes[c].is_active
    /\ codes[c].redeemed_by_user_id \in UserIds
    /\ codes[d].is_active

\* The testimonials of tenant x.
OwnedBy(x) == {t \in TestimonialIds : testimonials[t].user_id = x}

\* The commit of the owner's request op on testimonial t is answered OK in this step.
OwnerCommits(op, t) ==
  \E w \in Workers :
    /\ req[w].op = op
    /\ req[w].pc = "commit"
    /\ Finishes(w)
    /\ req'[w].result = "OK"
    /\ req[w].row.id = t
    /\ req[w].actor = testimonials[t].user_id

\* C11: a public submission creates the testimonial in status pending; a testimonial
\* becomes approved only by its owner's successful approve and stops being approved
\* only by its owner's successful hide (or its removal); and the wall served for a
\* tenant with one testimonial is empty while that testimonial is not approved and is
\* exactly that testimonial once it is.
C11_SubmitPendingUntilApproved ==
  [][/\ \A t \in 1..Len(testimonials') :
          t > Len(testimonials) => testimonials'[t].status = "pending"
     /\ \A t \in TestimonialIds :
          testimonials'[t] # Deleted
          => /\ (testimonials[t].status # "approved" /\ testimonials'[t].status = "approved")
                => OwnerCommits("approve", t)
             /\ (testimonials[t].status = "approved" /\ testimonials'[t].status # "approved")
                => OwnerCommits("hide", t)
     /\ \A w \in Workers :
          (req[w].pc = "idle" /\ req'[w].op = "wall" /\ req'[w].result = "OK")
          => \A t \in TestimonialIds :
               OwnedBy(req'[w].arg.user_id) = {t}
               => req'[w].body = IF testimonials[t].status = "approved"
                                 THEN <<[id |-> t, v |-> testimonials[t]]>>
                                 ELSE <<>>]_vars

\* C11 witness: the wall of a tenant whose one testimonial was approved was served with
\* that entry.
C11_Witness ==
  \E w \in Workers :
    /\ IsDone(w, "wall")
    /\ req[w].result = "OK"
    /\ Len(req[w].body) = 1
    /\ OwnedBy(req[w].arg.user_id) = {req[w].body[1].id}
    /\ testimonials[req[w].body[1].id].status = "approved"

\* C12: a promo code is mutated once.  A code that has a redeeming tenant is the same
\* row after every step (it exists, is inactive, and keeps its redeeming tenant), and a
\* redemption attempt that looks the code up once it has a redeeming tenant fails with
\* InvalidOrUsedCode and leaves the caller's tier as it was.
C12_CodeMutatedOnce ==
  [][/\ Len(codes') >= Len(codes)
     /\ \A c \in CodeIds :
          codes[c].redeemed_by_user_id # 0
          => /\ codes'[c] = codes[c]
             /\ ~codes[c].is_active
     /\ \A w \in Workers :
          (/\ req[w].op = "redeem"
           /\ req[w].pc = "lookup"
           /\ req'[w] # req[w]
           /\ \E c \in RequestedCode(w) : codes[c].redeemed_by_user_id # 0)
          => /\ req'[w].pc = "done"
             /\ req'[w].result \in InvalidOrUsedCode
             /\ users'[req[w].actor].subscription_status
                  = users[req[w].actor].subscription_status]_vars

\* C13: a redeem of a string that selects no code and a redeem of a code that is
\* already used are answered alike: the lookup of a used code gives the answer the
\* lookup of a missing code gives (the message of app.py 174), and neither changes a
\* table.
C13_MissingAndUsedAlike ==
  [][\A w \in Workers :
       (/\ req[w].op = "redeem"
        /\ req[w].pc = "lookup"
        /\ req'[w] # req[w]
        /\ \A c \in RequestedCode(w) : ~codes[c].is_active)
       => /\ req'[w].pc = "done"
          /\ req'[w].result = InvalidCode
          /\ <<users, testimonials, codes>>' = <<users, testimonials, codes>>]_vars

\* The positions of s that hold something other than a blank.
Inked(s) == {i \in DOMAIN s : s[i] # " "}

\* s without its leading and trailing blanks.
Trim(s) ==
  IF Inked(s) = {} THEN <<>>
  ELSE LET lo == CHOOSE i \in Inked(s) : \A j \in Inked(s) : i <= j
           hi == CHOOSE i \in Inked(s) : \A j \in Inked(s) : j <= i IN
       SubSeq(s, lo, hi)

\* The normalized form of a submitted code string: trimmed, then uppercased.
Normalized(s) == Upper(Trim(s))

\* C14: redeem looks the code up by the normalized form of the input.  A request whose
\* input is empty after normalization is answered EmptyCode and changes nothing; a
\* request of a locked tenant whose normalized input is a stored active code is not
\* refused at the form check nor at the lookup: it goes on to redeem that code.
C14_RedeemNormalizes ==
  [][\A w \in Workers :
       /\ (/\ req[w].pc = "idle"
           /\ req'[w].op = "redeem"
           /\ req'[w].actor # 0
           /\ Normalized(req'[w].arg.val) = <<>>)
          => /\ req'[w].pc = "done"
             /\ req'[w].result = EmptyCode
             /\ <<users, testimonials, codes>>' = <<users, testimonials, codes>>
       /\ (/\ req[w].op = "redeem"
           /\ req[w].pc = "lookup"
           /\ req'[w] # req[w]
           /\ req[w].cu.v = "inactive"
           /\ \E c \in CodeByString(Normalized(req[w].arg.val)) : codes[c].is_active)
          => /\ req'[w].pc = "commit"
             /\ req'[w].row.id \in CodeByString(Normalized(req[w].arg.val))]_vars

\* C15: a public submission whose author name or content is the empty string creates
\* no testimonial: every stored testimonial has a non-empty author name and a
\* non-empty content.
C15_NoBlankTestimonial ==
  \A t \in TestimonialIds :
    /\ testimonials[t].author_name # ""
    /\ testimonials[t].content # ""

\* The ids of the approved testimonials of tenant x.
ApprovedOf(x) == {t \in OwnedBy(x) : testimonials[t].status = "approved"}

\* C16: the wall request for an existing tenant X is answered with exactly the
\* approved testimonials of X, each once and as stored, by strictly descending id; the
\* request for an unknown tenant id is answered NotFound; and the request changes no
\* table.
C16_WallExactOrdered ==
  [][\A w \in Workers :
       (req[w].pc = "idle" /\ req'[w].op = "wall")
       => /\ req'[w].pc = "done"
          /\ <<users, testimonials, codes>>' = <<users, testimonials, codes>>
          /\ IF req'[w].arg.user_id \notin UserIds
             THEN req'[w].result = "NotFound"
             ELSE LET body == req'[w].body IN
                  /\ req'[w].result = "OK"
                  /\ {body[k].id : k \in DOMAIN body} = ApprovedOf(req'[w].arg.user_id)
                  /\ \A k \in DOMAIN body : body[k].v = testimonials[body[k].id]
                  /\ \A j, k \in DOMAIN body : j < k => body[j].id > body[k].id]_vars

\* C16 witness: a wall was served with two entries.
C16_Witness ==
  \E w \in Workers :
    /\ IsDone(w, "wall")
    /\ req[w].result = "OK"
    /\ Len(req[w].body) = 2
    /\ req[w].body[1].id > req[w].body[2].id

\* The ids of the testimonials that were deleted.
DeletedIds == {t \in 1..Len(testimonials) : testimonials[t] = Deleted}

\* C17: deletion is permanent.  A deleted testimonial stays deleted, is in no wall or
\* dashboard response given afterwards, and every approve, hide or delete request on
\* its id that is answered afterwards is answered NotFound, also when the request
\* loaded the testimonial before the delete committed.
C17_DeletePermanent ==
  [][/\ \A t \in DeletedIds : testimonials'[t] = Deleted
     /\ \A w \in Workers :
          /\ (Finishes(w) /\ req'[w].op \in {"wall", "dashboard"})
             => \A k \in DOMAIN req'[w].body : req'[w].body[k].id \notin DeletedIds
          /\ (/\ Finishes(w)
              /\ req'[w].op \in ModerationOps
              /\ req'[w].actor # 0
              /\ req'[w].arg.testimonial_id \in DeletedIds)
             => req'[w].result = "NotFound"]_vars

\* C18: promo codes are created only with the admin credential.  An admin request
\* with a key other than the configured admin key is answered Unauthorized, with no
\* code listing, and creates no code; and every step that adds a code to the ledger is
\* a POST admin request that carries the configured key.
C18_AdminKeyRequired ==
  [][/\ \A w \in Workers :
          (/\ req[w].pc = "idle"
           /\ req'[w].op = "admin"
           /\ req'[w].arg.admin_key # ADMIN_KEY)
          => /\ req'[w].pc = "done"
             /\ req'[w].result = "Unauthorized"
             /\ req'[w].body = <<>>
             /\ codes' = codes
     /\ Len(codes') # Len(codes)
        => /\ Len(codes') = Len(codes) + 1
           /\ \E w \in Workers :
                /\ req[w].pc = "idle"
                /\ req'[w].op = "admin"
                /\ req'[w].arg.method = "POST"
                /\ req'[w].arg.admin_key = ADMIN_KEY
                /\ req'[w].result = "OK"]_vars

\* C18 witness: a request with a wrong key was refused while the ledger holds a code.
C18_Witness ==
  \E w \in Workers :
    /\ IsDone(w, "admin")
    /\ req[w].arg.admin_key # ADMIN_KEY
    /\ req[w].result = "Unauthorized"
    /\ Len(codes) > 0

\* C19: every promo code that has a redeeming tenant T has T in the lifetime tier.
C19_RedeemerHoldsLifetime ==
  \A c \in CodeIds :
    codes[c].redeemed_by_user_id # 0
    => users[codes[c].redeemed_by_user_id].subscription_status = "lifetime"

\* C20: a tenant is the redeeming tenant of at most one promo code.
C20_OneCodePerTenant ==
  \A c, d \in CodeIds :
    (/\ codes[c].redeemed_by_user_id # 0
     /\ codes[c].redeemed_by_user_id = codes[d].redeemed_by_user_id)
    => c = d
====
